---- MODULE Spec2Model ----
(***************************************************************************)
(* Model of deepseek.py: a Flask server that stores one API key in         *)
(* config.json, keeps the system prompt of contexto.txt in the global      *)
(* `contexto`, and relays chat messages to a remote completion API.        *)
(*                                                                         *)
(* Strings are sequences of one-character strings.  Each worker thread of  *)
(* the server handles one request at a time; a handler is split into steps *)
(* exactly where it touches state shared with other requests (the two      *)
(* files, the global `contexto`) or blocks on the remote call.             *)
(***************************************************************************)
EXTENDS Integers, Sequences, FiniteSets, TLC

\* ------------------------------------------------------------------ bounds
MaxPad == 1        \* most whitespace characters put around an input
MaxRequests == 2   \* most requests, other than check_api_key, served in one behaviour

\* Requests run concurrently, each in a thread of its own; the model has two
\* slots for running requests, and a new request takes the first free one.
Threads == {1, 2}

\* ----------------------------------------------------------------- strings
Whitespace == {" ", "\t", "\n"}

RECURSIVE lstrip(_)
lstrip(s) ==
    IF s # <<>> /\ Head(s) \in Whitespace THEN lstrip(Tail(s)) ELSE s

RECURSIVE rstrip(_)
rstrip(s) ==
    IF s # <<>> /\ s[Len(s)] \in Whitespace
    THEN rstrip(SubSeq(s, 1, Len(s) - 1))
    ELSE s

\* str.strip()
strip(s) == rstrip(lstrip(s))

\* startswith that compares one character too few
startswith_short(s, prefix) ==
    /\ Len(s) >= Len(prefix) - 1
    /\ SubSeq(s, 1, Len(prefix) - 1) = SubSeq(prefix, 1, Len(prefix) - 1)

\* str.startswith(prefix)
startswith(s, prefix) ==
    /\ Len(s) >= Len(prefix)
    /\ SubSeq(s, 1, Len(prefix)) = prefix

\* bool(str): a string is truthy when it is not empty
truthy(s) == Len(s) > 0

SkPrefix == <<"s", "k", "-">>

\* the literal returned by carregar_contexto when the file does not exist
Fallback ==
    << "V", "o", "c", "ê", " ", "é", " ", "u", "m", " ",
       "a", "s", "s", "i", "s", "t", "e", "n", "t", "e", " ",
       "ú", "t", "i", "l", "." >>

\* the prompt save_api_key sends to test a key
TestPrompt == <<"t", "e", "s", "t">>

\* ------------------------------------------------------------------ inputs
RECURSIVE Spaces(_)
Spaces(n) == IF n = 0 THEN <<>> ELSE <<" ">> \o Spaces(n - 1)

Padded(cores) ==
    { Spaces(n) \o c \o Spaces(n) : n \in 0..MaxPad, c \in cores }

KeyCores ==
    { <<"s", "k", "-", "a">>,
      <<"s", "k", "a">> }
Keys == Padded(KeyCores) \cup { <<>>, <<"\t">>, <<"a", "s", "k", "-">> }

Messages == { Spaces(n) : n \in 0..MaxPad } \cup { <<"\n">>, <<"h", "i">> }

ContextTexts == { <<"\n", " ", "I", " ", "a", "m", " ", "B", "o", "b", ".", " ", "\n">> }

Replies == { <<"o", "k">> }

\* ----------------------------------------------------------- file contents
\* config.json
ConfigAbsent  == [kind |-> "absent",  api_key |-> <<>>]
ConfigGarbage == [kind |-> "garbage", api_key |-> <<>>]   \* not parsable as JSON
ConfigNoKey   == [kind |-> "nokey",   api_key |-> <<>>]   \* a JSON object without "api_key"
ConfigJson(k) == [kind |-> "json",    api_key |-> k]      \* {"api_key": k}

InitialConfigs ==
    { ConfigAbsent, ConfigGarbage }
      \cup { ConfigJson(k) : k \in { <<>>, <<" ">>, <<"s", "k", "-", "a">> } }

\* contexto.txt
ContextAbsent     == [kind |-> "absent",     content |-> <<>>]
ContextUnreadable == [kind |-> "unreadable", content |-> <<>>]  \* open/decoding fails
ContextText(s)    == [kind |-> "text",       content |-> s]

ContextFiles ==
    { ContextAbsent, ContextUnreadable } \cup { ContextText(s) : s \in ContextTexts }

\* contexto.txt when the server starts
InitialContexts ==
    { ContextAbsent } \cup { ContextText(s) : s \in ContextTexts }

\* ----------------------------------------------------------------- helpers
\* carregar_api_key(): '' when the file is missing or cannot be parsed
carregar_api_key(file) ==
    IF file.kind = "json" THEN strip(file.api_key)
    ELSE IF file.kind = "nokey" THEN strip(<<>>)
    ELSE <<>>

\* salvar_api_key that writes the key under another field name
salvar_other_field(file, api_key, fault) ==
    CASE fault = "none"  -> [file |-> ConfigNoKey,   ok |-> TRUE]
      [] fault = "open"  -> [file |-> file,          ok |-> FALSE]
      [] fault = "write" -> [file |-> ConfigGarbage, ok |-> FALSE]

\* salvar_api_key(api_key): the file afterwards and the value returned.
\* fault "open": open() raises, the file is untouched; fault "write": open()
\* truncated the file and json.dump raised.
salvar_api_key(file, api_key, fault) ==
    CASE fault = "none"  -> [file |-> ConfigJson(api_key), ok |-> TRUE]
      [] fault = "open"  -> [file |-> file,                ok |-> FALSE]
      [] fault = "write" -> [file |-> ConfigGarbage,       ok |-> FALSE]

SaveFaults == {"none", "open", "write"}

\* carregar_contexto(caminho_arquivo): only FileNotFoundError is caught
carregar_contexto(file) ==
    CASE file.kind = "text"       -> [raised |-> FALSE, value |-> strip(file.content)]
      [] file.kind = "absent"     -> [raised |-> FALSE, value |-> Fallback]
      [] file.kind = "unreadable" -> [raised |-> TRUE,  value |-> <<>>]

\* a completion client, or None
None == [some |-> FALSE, api_key |-> <<>>]
OpenAI(k) == [some |-> TRUE, api_key |-> k]

\* criar_cliente without the test of the key
criar_cliente_unchecked(file, ctorRaises) ==
    IF ctorRaises THEN None ELSE OpenAI(carregar_api_key(file))

\* criar_cliente(): None without a key, or when the constructor raises
criar_cliente(file, ctorRaises) ==
    LET api_key == carregar_api_key(file) IN
    IF ~truthy(api_key) THEN None
    ELSE IF ctorRaises THEN None
    ELSE OpenAI(api_key)

\* --------------------------------------------------------------- responses
NoResponse == [status |-> 0, tag |-> "none", text |-> <<>>]
Response(status, tag) == [status |-> status, tag |-> tag, text |-> <<>>]
Reply(text) == [status |-> 200, tag |-> "reply", text |-> text]

NoRequest == [op |-> "none", arg |-> <<>>]
Request(op, arg) == [op |-> op, arg |-> arg]

\* ------------------------------------------------------------------- state
VARIABLES
    cfg,        \* content of config.json
    ctxFile,    \* content of contexto.txt
    contexto,   \* the global `contexto`
    pc,         \* per thread: where its handler stands ("ready" between requests)
    req,        \* per thread: the request being handled, or the last one handled
    resp,       \* per thread: the response, NoResponse while the request runs
    api_key,    \* per thread: local api_key of save_api_key
    client,     \* per thread: local client of chat / test_client of save_api_key
    messages,   \* per thread: the messages list handed to completions.create
    loaded,     \* per thread: the value carregar_contexto returned to reset_context
    remote,     \* per thread: state of the remote call, "none" | "pending" | "ok" | "raised"
    calls,      \* per thread: completions.create calls made by the request
    served,     \* requests started so far, check_api_key not counted
    \* history variables
    ctxAtLoad,  \* contexto.txt as the most recent load (start or reset) found it
    snap,       \* per thread: contexto.txt as its reset_context read it
    before,     \* per thread: `contexto` when its chat request began
    during,     \* per thread: values stored by reset_context while its chat ran, before it read `contexto`
    trip        \* where the sequence save, check, delete, check of the credential stands

vars == << cfg, ctxFile, contexto, pc, req, resp, api_key, client, messages,
           loaded, remote, calls, served, ctxAtLoad, snap, before, during, trip >>

files  == << cfg, ctxFile >>
locals == << api_key, client, messages, loaded >>
hist   == << ctxAtLoad, snap, before, during, trip >>

\* line 61: contexto = carregar_contexto(CONTEXTO_FILE) runs at import; the
\* server only comes up when it did not raise
Init ==
    /\ cfg \in InitialConfigs
    /\ ctxFile \in InitialContexts
    /\ contexto = carregar_contexto(ctxFile).value
    /\ pc = [t \in Threads |-> "ready"]
    /\ req = [t \in Threads |-> NoRequest]
    /\ resp = [t \in Threads |-> NoResponse]
    /\ api_key = [t \in Threads |-> <<>>]
    /\ client = [t \in Threads |-> None]
    /\ messages = [t \in Threads |-> <<>>]
    /\ loaded = [t \in Threads |-> <<>>]
    /\ remote = [t \in Threads |-> "none"]
    /\ calls = [t \in Threads |-> 0]
    /\ served = 0
    /\ ctxAtLoad = ctxFile
    /\ snap = [t \in Threads |-> ContextAbsent]
    /\ before = [t \in Threads |-> <<>>]
    /\ during = [t \in Threads |-> {}]
    /\ trip = "none"

\* a request takes the first free slot
Take(t, op, arg) ==
    /\ pc[t] = "ready"
    /\ \A u \in Threads : u < t => pc[u] # "ready"
    /\ req' = [req EXCEPT ![t] = Request(op, arg)]

Accept(t, op, arg) ==
    /\ Take(t, op, arg)
    /\ served < MaxRequests
    /\ served' = served + 1

\* history: the credential's sequence after each operation that answered
AfterSave(ok) == IF ok THEN "saved" ELSE "none"

AfterCheck ==
    CASE trip = "saved"        -> "saved_checked"
      [] trip = "trip_deleted" -> "trip_done"
      [] OTHER                 -> trip

AfterDelete(ok) ==
    CASE ok /\ trip = "saved_checked"                                -> "trip_deleted"
      [] ok /\ trip \in {"deleted", "deleted_again", "trip_deleted"}  -> "deleted_again"
      [] ok /\ trip \in {"none", "saved", "trip_done", "delete_failed"} -> "deleted"
      [] ~ok /\ trip \in {"saved", "saved_checked"}                   -> "delete_failed"
      [] OTHER                                                        -> "none"

Set(f, t, v) == [f EXCEPT ![t] = v]

\* the request's locals and per-request history start empty
Locals(t, k, c, m, l) ==
    /\ api_key' = Set(api_key, t, k)
    /\ client' = Set(client, t, c)
    /\ messages' = Set(messages, t, m)
    /\ loaded' = Set(loaded, t, l)

Remote(t, r, n) ==
    /\ remote' = Set(remote, t, r)
    /\ calls' = Set(calls, t, n)

Respond(t, r) ==
    /\ resp' = Set(resp, t, r)
    /\ pc' = Set(pc, t, "ready")

Goto(t, label) ==
    /\ resp' = Set(resp, t, NoResponse)
    /\ pc' = Set(pc, t, label)

System(content) == [role |-> "system", content |-> content]
User(content)   == [role |-> "user",   content |-> content]

\* ---------------------------------------------------------- GET /check_api_key
check_api_key(t) ==
    /\ Take(t, "check", <<>>)
    /\ Locals(t, <<>>, None, <<>>, <<>>)
    /\ Remote(t, "none", 0)
    /\ Respond(t, IF truthy(carregar_api_key(cfg))
                  THEN Response(200, "configured")
                  ELSE Response(200, "not_configured"))
    /\ snap' = Set(snap, t, ContextAbsent)
    /\ before' = Set(before, t, <<>>)
    /\ during' = Set(during, t, {})
    /\ trip' = AfterCheck
    /\ UNCHANGED << files, contexto, served, ctxAtLoad >>

\* --------------------------------------------------------- POST /save_api_key
\* lines 75-92: validation of the input, then the test call is issued
save_api_key_validate(t) ==
    \E raw \in Keys, ctorRaises \in BOOLEAN :
        LET k == strip(raw) IN
        /\ Accept(t, "save", raw)
        /\ IF ~truthy(k)
           THEN /\ Respond(t, Response(400, "not_provided"))
                /\ Locals(t, <<>>, None, <<>>, <<>>)
                /\ Remote(t, "none", 0)
           ELSE IF ~startswith(k, SkPrefix)
           THEN /\ Respond(t, Response(400, "invalid_format"))
                /\ Locals(t, <<>>, None, <<>>, <<>>)
                /\ Remote(t, "none", 0)
           ELSE IF ctorRaises
           THEN /\ Respond(t, Response(400, "invalid_key"))
                /\ Locals(t, <<>>, None, <<>>, <<>>)
                /\ Remote(t, "none", 0)
           ELSE /\ Goto(t, "save_wait")
                /\ Locals(t, k, OpenAI(k), << User(TestPrompt) >>, <<>>)
                /\ Remote(t, "pending", 1)
        /\ snap' = Set(snap, t, ContextAbsent)
        /\ before' = Set(before, t, <<>>)
        /\ during' = Set(during, t, {})
        /\ UNCHANGED << files, contexto, ctxAtLoad, trip >>

\* save_api_key that saves the key before it looks at the outcome of the test call
save_api_key_persist_first(t) ==
    /\ pc[t] = "save_wait"
    /\ \E fault \in SaveFaults, raised \in BOOLEAN :
         LET r == salvar_api_key(cfg, api_key[t], fault) IN
         /\ cfg' = r.file
         /\ remote' = Set(remote, t, IF raised THEN "raised" ELSE "ok")
         /\ Respond(t, IF raised THEN Response(400, "invalid_key")
                       ELSE IF r.ok THEN Response(200, "saved")
                       ELSE Response(500, "save_failed"))
         /\ trip' = IF raised THEN "none" ELSE AfterSave(r.ok)
    /\ api_key' = Set(api_key, t, <<>>)
    /\ messages' = Set(messages, t, <<>>)
    /\ UNCHANGED << ctxFile, contexto, req, client, loaded, calls, served,
                    ctxAtLoad, snap, before, during >>

\* lines 93-104: the test call returns or raises; the key is saved after it returned
save_api_key_persist(t) ==
    /\ pc[t] = "save_wait"
    /\ \/ /\ remote' = Set(remote, t, "raised")
          /\ Respond(t, Response(400, "invalid_key"))
          /\ UNCHANGED << cfg, trip >>
       \/ \E fault \in SaveFaults :
            LET r == salvar_api_key(cfg, api_key[t], fault) IN
            /\ remote' = Set(remote, t, "ok")
            /\ cfg' = r.file
            /\ Respond(t, IF r.ok THEN Response(200, "saved")
                          ELSE Response(500, "save_failed"))
            /\ trip' = AfterSave(r.ok)
    /\ api_key' = Set(api_key, t, <<>>)
    /\ messages' = Set(messages, t, <<>>)
    /\ UNCHANGED << ctxFile, contexto, req, client, loaded, calls, served,
                    ctxAtLoad, snap, before, during >>

\* ----------------------------------------------------------------- POST /chat
\* chat that reads the message before it creates the client
chat_message_first(t) ==
    \E msg \in Messages, ctorRaises \in BOOLEAN :
        LET c == IF truthy(msg) THEN criar_cliente(cfg, ctorRaises) ELSE None IN
        /\ Accept(t, "chat", msg)
        /\ Locals(t, <<>>, c, <<>>, <<>>)
        /\ Remote(t, "none", 0)
        /\ IF ~truthy(msg)
           THEN /\ Respond(t, Response(400, "empty_message"))
                /\ before' = Set(before, t, <<>>)
           ELSE IF ~c.some
           THEN /\ Respond(t, Response(401, "not_configured"))
                /\ before' = Set(before, t, <<>>)
           ELSE /\ Goto(t, "chat_send")
                /\ before' = Set(before, t, contexto)
        /\ snap' = Set(snap, t, ContextAbsent)
        /\ during' = Set(during, t, {})
        /\ UNCHANGED << files, contexto, ctxAtLoad, trip >>

\* lines 110-120: the client is created first, then the message is read
chat_client(t) ==
    \E msg \in Messages, ctorRaises \in BOOLEAN :
        LET c == criar_cliente(cfg, ctorRaises) IN
        /\ Accept(t, "chat", msg)
        /\ Locals(t, <<>>, c, <<>>, <<>>)
        /\ Remote(t, "none", 0)
        /\ IF ~c.some
           THEN /\ Respond(t, Response(401, "not_configured"))
                /\ before' = Set(before, t, <<>>)
           ELSE IF ~truthy(msg)
           THEN /\ Respond(t, Response(400, "empty_message"))
                /\ before' = Set(before, t, <<>>)
           ELSE /\ Goto(t, "chat_send")
                /\ before' = Set(before, t, contexto)
        /\ snap' = Set(snap, t, ContextAbsent)
        /\ during' = Set(during, t, {})
        /\ UNCHANGED << files, contexto, ctxAtLoad, trip >>

\* lines 123-133: the global is read into the messages and the call is issued
chat_send(t) ==
    /\ pc[t] = "chat_send"
    /\ messages' = Set(messages, t, << System(contexto), User(req[t].arg) >>)
    /\ Remote(t, "pending", calls[t] + 1)
    /\ Goto(t, "chat_wait")
    /\ UNCHANGED << files, contexto, req, api_key, client, loaded, served, hist >>

\* chat that issues the call again when it raised
chat_reply_retry(t) ==
    /\ pc[t] = "chat_wait"
    /\ \/ /\ \E text \in Replies :
               /\ remote' = Set(remote, t, "ok")
               /\ Respond(t, Reply(text))
          /\ messages' = Set(messages, t, <<>>)
          /\ before' = Set(before, t, <<>>)
          /\ during' = Set(during, t, {})
       \/ /\ remote' = Set(remote, t, "raised")
          /\ Goto(t, "chat_send")
          /\ UNCHANGED << messages, before, during >>
    /\ UNCHANGED << files, contexto, req, api_key, client, loaded, calls, served,
                    ctxAtLoad, snap, trip >>

\* lines 134-137: the reply of the first choice, or 500 when anything raised
chat_reply(t) ==
    /\ pc[t] = "chat_wait"
    /\ \/ \E text \in Replies :
            /\ remote' = Set(remote, t, "ok")
            /\ Respond(t, Reply(text))
       \/ /\ remote' = Set(remote, t, "raised")
          /\ Respond(t, Response(500, "remote_error"))
    /\ messages' = Set(messages, t, <<>>)
    /\ before' = Set(before, t, <<>>)
    /\ during' = Set(during, t, {})
    /\ UNCHANGED << files, contexto, req, api_key, client, loaded, calls, served,
                    ctxAtLoad, snap, trip >>

\* -------------------------------------------------------- POST /reset_context
\* line 143, right-hand side: the file is read; an exception other than
\* FileNotFoundError leaves the handler and the framework answers 500
reset_context_load(t) ==
    LET r == carregar_contexto(ctxFile) IN
    /\ Accept(t, "reset", <<>>)
    /\ Remote(t, "none", 0)
    /\ IF r.raised
       THEN /\ Respond(t, Response(500, "unhandled"))
            /\ Locals(t, <<>>, None, <<>>, <<>>)
            /\ snap' = Set(snap, t, ctxFile)
            /\ ctxAtLoad' = ctxFile
       ELSE /\ Goto(t, "reset_store")
            /\ Locals(t, <<>>, None, <<>>, r.value)
            /\ snap' = Set(snap, t, ctxFile)
            /\ UNCHANGED ctxAtLoad
    /\ before' = Set(before, t, <<>>)
    /\ during' = Set(during, t, {})
    /\ UNCHANGED << files, contexto, trip >>

\* reset_context whose store leaves a part of the loaded value in the global
reset_context_store_torn(t) ==
    /\ pc[t] = "reset_store"
    /\ contexto' = SubSeq(loaded[t], 1, Len(loaded[t]) - 1)
    /\ Respond(t, Response(200, "reset"))
    /\ ctxAtLoad' = snap[t]
    /\ during' = [u \in Threads |->
                    IF pc[u] = "chat_send" THEN during[u] \cup {loaded[t]}
                    ELSE during[u]]
    /\ loaded' = Set(loaded, t, <<>>)
    /\ snap' = Set(snap, t, ContextAbsent)
    /\ UNCHANGED << files, req, api_key, client, messages, remote, calls, served,
                    before, trip >>

\* line 143, the store into the global, and lines 144-147
reset_context_store(t) ==
    /\ pc[t] = "reset_store"
    /\ contexto' = loaded[t]
    /\ Respond(t, Response(200, "reset"))
    /\ ctxAtLoad' = snap[t]
    /\ during' = [u \in Threads |->
                    IF pc[u] = "chat_send" THEN during[u] \cup {loaded[t]}
                    ELSE during[u]]
    /\ loaded' = Set(loaded, t, <<>>)
    /\ snap' = Set(snap, t, ContextAbsent)
    /\ UNCHANGED << files, req, api_key, client, messages, remote, calls, served,
                    before, trip >>

\* ------------------------------------------------------- POST /delete_api_key
\* delete_api_key that calls os.remove without asking whether the file exists
delete_api_key_unguarded(t) ==
    /\ Accept(t, "delete", <<>>)
    /\ Locals(t, <<>>, None, <<>>, <<>>)
    /\ Remote(t, "none", 0)
    /\ Goto(t, "delete_remove")
    /\ snap' = Set(snap, t, ContextAbsent)
    /\ before' = Set(before, t, <<>>)
    /\ during' = Set(during, t, {})
    /\ UNCHANGED << files, contexto, ctxAtLoad, trip >>

\* line 153: os.path.exists; without the file the handler answers at once
delete_api_key_exists(t) ==
    /\ Accept(t, "delete", <<>>)
    /\ Locals(t, <<>>, None, <<>>, <<>>)
    /\ Remote(t, "none", 0)
    /\ IF cfg.kind = "absent"
       THEN /\ Respond(t, Response(200, "deleted"))
            /\ trip' = AfterDelete(TRUE)
       ELSE /\ Goto(t, "delete_remove")
            /\ UNCHANGED trip
    /\ snap' = Set(snap, t, ContextAbsent)
    /\ before' = Set(before, t, <<>>)
    /\ during' = Set(during, t, {})
    /\ UNCHANGED << files, contexto, ctxAtLoad >>

\* line 154: os.remove; it raises when the file is gone by now or cannot be removed
delete_api_key_remove(t) ==
    /\ pc[t] = "delete_remove"
    /\ \/ /\ cfg.kind # "absent"
          /\ cfg' = ConfigAbsent
          /\ Respond(t, Response(200, "deleted"))
          /\ trip' = AfterDelete(TRUE)
       \/ /\ UNCHANGED cfg
          /\ Respond(t, Response(500, "fs_error"))
          /\ trip' = AfterDelete(FALSE)
    /\ UNCHANGED << ctxFile, contexto, req, locals, remote, calls, served,
                    ctxAtLoad, snap, before, during >>

\* ---------------------------------------------------------------- environment
\* contexto.txt is edited, removed or made unreadable outside the server
edit_context_file ==
    \E f \in ContextFiles :
        /\ f # ctxFile
        /\ ctxFile' = f
        /\ UNCHANGED << cfg, contexto, pc, req, resp, locals, remote, calls,
                        served, hist >>

Next ==
    \/ \E t \in Threads : check_api_key(t)
    \/ \E t \in Threads : save_api_key_validate(t)
    \/ \E t \in Threads : save_api_key_persist(t)
    \/ \E t \in Threads : chat_client(t)
    \/ \E t \in Threads : chat_send(t)
    \/ \E t \in Threads : chat_reply(t)
    \/ \E t \in Threads : reset_context_load(t)
    \/ \E t \in Threads : reset_context_store(t)
    \/ \E t \in Threads : delete_api_key_exists(t)
    \/ \E t \in Threads : delete_api_key_remove(t)
    \/ edit_context_file

Spec == Init /\ [][Next]_vars

\* ================================================================= properties
\* What the specification's sentences say about strings, stated without the
\* operators of the model.
IsBlank(s) == \A i \in 1..Len(s) : s[i] \in Whitespace

\* s, without the whitespace around it, starts with p
TrimmedStartsWith(s, p) ==
    \E i \in 1..Len(s) :
        /\ \A j \in 1..(i - 1) : s[j] \in Whitespace
        /\ s[i] \notin Whitespace
        /\ i + Len(p) - 1 <= Len(s)
        /\ \A k \in 1..Len(p) : s[i + k - 1] = p[k]

\* v is s without the whitespace around it
IsTrimOf(v, s) ==
    \E i \in 0..Len(s), j \in 0..Len(s) :
        /\ v = SubSeq(s, i + 1, j)
        /\ \A k \in 1..i : s[k] \in Whitespace
        /\ \A k \in (j + 1)..Len(s) : s[k] \in Whitespace
        /\ v # <<>> => (v[1] \notin Whitespace /\ v[Len(v)] \notin Whitespace)

\* no credential is stored: file absent, unparsable, or key empty
NoCredential(file) ==
    \/ file.kind \in {"absent", "garbage", "nokey"}
    \/ file.kind = "json" /\ file.api_key = <<>>

Answered(t) == pc[t] = "ready" /\ resp[t] # NoResponse

BadFormatKey(k) == ~IsBlank(k) /\ ~TrimmedStartsWith(k, SkPrefix)

\* C1: a save-credential request whose api_key, trimmed, is non-empty and does
\* not start with "sk-" is answered 400 in its first step, and no remote
\* completion call was made during it.
C1_BadFormatRejected ==
    \A t \in Threads :
        (req[t].op = "save" /\ BadFormatKey(req[t].arg)) =>
            /\ pc[t] = "ready"
            /\ resp[t].status = 400
            /\ calls[t] = 0
            /\ remote[t] = "none"

C1_Witness ==
    \E t \in Threads :
        /\ req[t].op = "save"
        /\ BadFormatKey(req[t].arg)
        /\ resp[t] = Response(400, "invalid_format")

\* C2 as stated: a chat request whose message is empty or only whitespace is
\* answered 400 and no completion client was constructed during it, whatever
\* the stored credential.
C2_AsStated ==
    \A t \in Threads :
        (req[t].op = "chat" /\ IsBlank(req[t].arg)) =>
            /\ pc[t] = "ready"
            /\ resp[t].status = 400
            /\ ~client[t].some

\* C2, amended: a chat request whose message is empty (length zero) makes no
\* remote call; it is answered 400 when a client was constructed from the
\* stored credential, which happens before the message is read, and 401 when
\* none was.  A message that is not empty, whitespace-only included, is never
\* answered 400.
C2_EmptyMessage ==
    \A t \in Threads :
        req[t].op = "chat" =>
            /\ req[t].arg = <<>> =>
                /\ pc[t] = "ready"
                /\ calls[t] = 0
                /\ remote[t] = "none"
                /\ \/ client[t].some /\ resp[t] = Response(400, "empty_message")
                   \/ ~client[t].some /\ resp[t] = Response(401, "not_configured")
            /\ req[t].arg # <<>> => resp[t].status # 400

C2_Witness ==
    \E t \in Threads :
        /\ req[t].op = "chat"
        /\ req[t].arg = <<>>
        /\ client[t].some
        /\ resp[t] = Response(400, "empty_message")

\* C3: a step changes config.json only when it is the removal of
\* delete-credential or the last step of a save-credential request whose key
\* is non-empty after trim, starts with "sk-" and whose remote validation call
\* returned without exception; no step of a save-credential request that ends
\* with status 400 changes config.json.
C3_SaveOnlyAfterChecks ==
    [][ /\ cfg' # cfg =>
            \E t \in Threads :
                \/ delete_api_key_remove(t)
                \/ /\ save_api_key_persist(t)
                   /\ ~IsBlank(req[t].arg)
                   /\ TrimmedStartsWith(req[t].arg, SkPrefix)
                   /\ remote'[t] = "ok"
                   /\ resp'[t].status # 400
        /\ \A t \in Threads :
              (/\ req'[t].op = "save"
               /\ resp'[t].status = 400
               /\ pc'[t] # pc[t] \/ served' # served
               /\ save_api_key_validate(t) \/ save_api_key_persist(t)) => cfg' = cfg
      ]_vars

C3_Witness ==
    \E t \in Threads :
        /\ req[t].op = "save"
        /\ resp[t] = Response(200, "saved")
        /\ remote[t] = "ok"
        /\ cfg.kind = "json"
        /\ IsTrimOf(cfg.api_key, req[t].arg)

Configured == Response(200, "configured")
NotConfigured == Response(200, "not_configured")

\* C4 as stated: after a save-credential that succeeded, check-credential
\* reports configured = true; after a following delete-credential, whatever
\* it answered, check-credential reports configured = false.
C4_AsStated ==
    [][ \A t \in Threads :
          check_api_key(t) =>
            /\ trip \in {"saved", "saved_checked"} => resp'[t] = Configured
            /\ trip \in {"trip_deleted", "trip_done", "delete_failed"}
                   => resp'[t] = NotConfigured
      ]_vars

\* C4, amended: after a save-credential that succeeded, check-credential
\* reports configured = true; after a following delete-credential that
\* answered success (status 200), check-credential reports configured = false.
C4_RoundTrip ==
    [][ \A t \in Threads :
          check_api_key(t) =>
            /\ trip \in {"saved", "saved_checked"} => resp'[t] = Configured
            /\ trip \in {"deleted", "deleted_again", "trip_deleted", "trip_done"}
                   => resp'[t] = NotConfigured
      ]_vars

\* save succeeded, check said true, delete succeeded, check said false
C4_Witness ==
    /\ trip = "trip_done"
    /\ \E t \in Threads : req[t].op = "check" /\ resp[t] = NotConfigured

\* C5: delete-credential on an absent config.json answers 200 with
\* success = true in one step and leaves the file absent; after a
\* delete-credential that succeeded the file is absent, so every
\* delete-credential that follows it succeeds too.
C5_DeleteIdempotent ==
    [][ /\ \A t \in Threads :
              (delete_api_key_exists(t) /\ cfg.kind = "absent") =>
                  /\ pc'[t] = "ready"
                  /\ resp'[t] = Response(200, "deleted")
                  /\ cfg' = cfg
        /\ trip' \in {"deleted", "deleted_again", "trip_deleted", "trip_done"}
              => cfg'.kind = "absent"
      ]_vars

\* two delete-credential requests in a row, both answered success
C5_Witness ==
    /\ trip = "deleted_again"
    /\ cfg.kind = "absent"
    /\ \E t \in Threads : req[t].op = "delete" /\ resp[t] = Response(200, "deleted")

\* C6: with no credential stored, a chat request with a non-empty message is
\* answered 401 "not configured" in one step, makes no remote completion call
\* and leaves config.json and the in-memory context as they were.
C6_NotConfigured ==
    [][ \A t \in Threads :
          (/\ NoCredential(cfg)
           /\ req'[t].op = "chat"
           /\ req'[t].arg # <<>>
           /\ chat_client(t)) =>
              /\ pc'[t] = "ready"
              /\ resp'[t] = Response(401, "not_configured")
              /\ calls'[t] = 0
              /\ remote'[t] = "none"
              /\ ~client'[t].some
              /\ cfg' = cfg
              /\ contexto' = contexto
      ]_vars

C6_Witness ==
    \E t \in Threads :
        /\ req[t].op = "chat"
        /\ req[t].arg # <<>>
        /\ NoCredential(cfg)
        /\ resp[t] = Response(401, "not_configured")
        /\ calls[t] = 0

\* C7 as stated: every chat call sends exactly two messages, system then
\* user; the system content is the trimmed content of contexto.txt as it was
\* at the most recent reset-context, or at process start when there was none
\* (the fallback string when the file was absent then).
C7_AsStated ==
    [][ \A t \in Threads :
          chat_send(t) =>
            /\ Len(messages'[t]) = 2
            /\ messages'[t][1].role = "system"
            /\ messages'[t][2] = User(req[t].arg)
            /\ messages'[t][1].content = contexto
            /\ \/ /\ ctxAtLoad.kind = "text"
                  /\ IsTrimOf(messages'[t][1].content, ctxAtLoad.content)
               \/ /\ ctxAtLoad.kind = "absent"
                  /\ messages'[t][1].content = Fallback
      ]_vars

\* C8 as stated: every reset-context request is answered status "success",
\* whatever contexto.txt is.
C8_AsStated ==
    \A t \in Threads :
        (req[t].op = "reset" /\ pc[t] = "ready") => resp[t] = Response(200, "reset")

\* C9: the system content a chat request hands to the remote call is the
\* value `contexto` had when the request began or a value a reset-context
\* stored since, never another one; a chat request fails only when the remote
\* call raised, and a reset-context request only when it found contexto.txt
\* unreadable.
C9_StaleOrFresh ==
    \A t \in Threads :
        /\ pc[t] = "chat_wait" =>
              messages[t][1].content \in ({before[t]} \cup during[t])
        /\ (req[t].op = "chat" /\ Answered(t) /\ resp[t].status = 500)
              => remote[t] = "raised"
        /\ (req[t].op = "reset" /\ Answered(t) /\ resp[t].status # 200)
              => snap[t].kind = "unreadable"

\* a chat call that sends the value a concurrent reset-context stored
C9_Witness ==
    \E t \in Threads :
        /\ pc[t] = "chat_wait"
        /\ during[t] # {}
        /\ messages[t][1].content \in during[t]
        /\ messages[t][1].content # before[t]

\* C10: a request makes at most one remote completion call; when the call
\* raised the request has ended, with 400 for save-credential and 500 for
\* chat; check-credential, reset-context and delete-credential make none.
C10_NoRetry ==
    \A t \in Threads :
        /\ calls[t] <= 1
        /\ req[t].op \in {"check", "reset", "delete"} =>
              (calls[t] = 0 /\ remote[t] = "none")
        /\ remote[t] = "raised" =>
              /\ pc[t] = "ready"
              /\ req[t].op = "save" => resp[t].status = 400
              /\ req[t].op = "chat" => resp[t].status = 500
        /\ remote[t] # "none" => calls[t] = 1

C10_Witness ==
    \E t \in Threads :
        /\ req[t].op = "chat"
        /\ remote[t] = "raised"
        /\ resp[t] = Response(500, "remote_error")
        /\ calls[t] = 1

====
